---- MODULE Spec2Model ----
(***************************************************************************)
(* A model of the classwork package: the attribute store ClassWorkBase     *)
(* (bases.py) on top of ClassworkAbc (meta.py), its JSON envelope codec,   *)
(* the tag-driven class resolution of ClassworkAbc.__new__, the multi-key  *)
(* matcher MultiIndexDict.match / keymatch, the collection check of        *)
(* ParamSet, and the combinator OperableAbc._op over ParamsAbc records.    *)
(*                                                                         *)
(* Python strings are records [u, b]: u leading underscores, then b; so    *)
(* f"_{attr}" and str.startswith("_") are computed, not assumed.           *)
(* Python dicts are sequences of <<key, value>> pairs in insertion order.  *)
(* Python values are records tagged by their type in field t.              *)
(***************************************************************************)
EXTENDS Integers, Sequences, FiniteSets, TLC

VARIABLES
  heap,     \* object id -> [cls, d]: the instance's class and its __dict__
  params,   \* the caller's params dict handed to the last constructor call
  text,     \* the last JSON document written by to_json_str
  last,     \* the last call: its operation, operands and outcome
  kx, ky,   \* the operands handed to keymatch
  kres      \* the outcome of the last keymatch call

vars == <<heap, params, text, last, kx, ky, kres>>

----------------------------------------------------------------------------
(* Bounds of the model *)

MaxObjs == 1
MaxInt == 2
MaxCodecObjs == 2
MaxResolveObjs == 2
MaxMatchObjs == 1
MaxOpObjs == 3
MaxSetObjs == 3

----------------------------------------------------------------------------
(* Python strings and values *)

S(b) == [u |-> 0, b |-> b]
U(b) == [u |-> 1, b |-> b]
Hide(s) == [u |-> s.u + 1, b |-> s.b]
StartsWith1(s) == s.u >= 1
StartsWith2(s) == s.u >= 2

IntV(k) == [t |-> "int", n |-> k]
StrV(s) == [t |-> "str", s |-> s]
DateV(k) == [t |-> "date", day |-> k]
NoneV == [t |-> "none"]
ListV(l) == [t |-> "list", l |-> l]
TupV(l) == [t |-> "tuple", l |-> l]
DictV(m) == [t |-> "dict", m |-> m]
RangeV(a, b) == [t |-> "range", start |-> IntV(a), stop |-> IntV(b)]
SliceV(a, b) == [t |-> "slice", start |-> a, stop |-> b]
ObjV(i) == [t |-> "obj", id |-> i]
FuncV(f) == [t |-> "function", f |-> f]
MethV(f) == [t |-> "method", f |-> f]
ClsV(c) == [t |-> "class", c |-> c]

----------------------------------------------------------------------------
(* Python dict operations on insertion-ordered maps *)

Keys(m) == {m[i][1] : i \in 1..Len(m)}
Has(m, k) == k \in Keys(m)
Idx(m, k) == CHOOSE i \in 1..Len(m) : m[i][1] = k
Get(m, k) == m[Idx(m, k)][2]
Put(m, k, v) ==
  IF Has(m, k) THEN [m EXCEPT ![Idx(m, k)] = <<k, v>>] ELSE Append(m, <<k, v>>)
Pop(m, k) == SelectSeq(m, LAMBDA e : e[1] # k)

RECURSIVE UpdateMap(_, _)
UpdateMap(m, m2) ==
  IF m2 = <<>> THEN m
  ELSE UpdateMap(Put(m, Head(m2)[1], Head(m2)[2]), Tail(m2))

\* the entries of m whose key is in the set ks, and those whose key is not
Restrict(m, ks) == SelectSeq(m, LAMBDA e : e[1] \in ks)
Without(m, ks) == SelectSeq(m, LAMBDA e : e[1] \notin ks)
\* {k: v for k, v in m.items() if not k.startswith("_")}
Public(m) == SelectSeq(m, LAMBDA e : ~ StartsWith1(e[1]))
Values(m) == [i \in 1..Len(m) |-> m[i][2]]
KeySeq(m) == [i \in 1..Len(m) |-> m[i][1]]
\* dict == dict compares keys and values, not insertion order
AsFun(m) == [k \in Keys(m) |-> Get(m, k)]

----------------------------------------------------------------------------
(* The classes: the package's own and a few declared by a user of it *)

Fld(k, v) == [k |-> k, kind |-> "value", v |-> v]
Fn(k) == [k |-> k, kind |-> "function", v |-> FuncV(k)]
CMeth(k) == [k |-> k, kind |-> "classmethod", v |-> FuncV(k)]
SMeth(k) == [k |-> k, kind |-> "staticmethod", v |-> FuncV(k)]
Cls(k, c) == [k |-> k, kind |-> "class", v |-> ClsV(c)]

IndexNames == <<S("scen_keys"), S("geo_keys"), S("date_key")>>

\* class id -> its module, __name__, __qualname__, first base, the __init__ it
\* runs and its own __dict__ in declaration order
ClassDef ==
  [c \in {"ClassWorkBase", "MultiIndexDict", "ParamSet", "Point", "Label",
          "Point3", "Local", "Params", "SubParams"} |->
    CASE c = "ClassWorkBase" ->
           [module |-> "classwork.bases", name |-> "ClassWorkBase",
            qualname |-> "ClassWorkBase", base |-> "object",
            init |-> "ClassWorkBase",
            dict |-> <<Cls(S("encoder"), "ClassworkEncoder"),
                       Cls(S("decoder"), "ClassworkDecoder"),
                       Fn([u |-> 2, b |-> "init__"]), Fn(S("asdict")),
                       Fn(S("update")), CMeth(S("from_json"))>>]
      [] c = "MultiIndexDict" ->
           [module |-> "classwork.bases", name |-> "MultiIndexDict",
            qualname |-> "MultiIndexDict", base |-> "ClassWorkBase",
            init |-> "ClassWorkBase",
            dict |-> <<Fn(S("match")), SMeth(S("keymatch"))>>]
      [] c = "ParamSet" ->
           [module |-> "classwork.bases", name |-> "ParamSet",
            qualname |-> "ParamSet", base |-> "MultiIndexDict",
            init |-> "ParamSet",
            dict |-> <<Fld(S("scen_keys"), NoneV), Fld(S("geo_keys"), NoneV),
                       Fld(S("date_key"), NoneV),
                       Fld(S("indexes"),
                           ListV([i \in 1..3 |-> StrV(IndexNames[i])])),
                       Fn([u |-> 2, b |-> "init__"]),
                       CMeth(U("check_collection"))>>]
      [] c = "Point" ->
           [module |-> "classwork.usr.classes", name |-> "Point",
            qualname |-> "Point", base |-> "ClassWorkBase",
            init |-> "ClassWorkBase",
            dict |-> <<Fld(S("x"), IntV(0)), Fld(S("y"), IntV(0))>>]
      [] c = "Label" ->
           [module |-> "classwork.usr.classes", name |-> "Label",
            qualname |-> "Label", base |-> "ClassWorkBase",
            init |-> "ClassWorkBase",
            dict |-> <<Fld(S("x"), IntV(0))>>]
      [] c = "Point3" ->
           [module |-> "classwork.usr.classes", name |-> "Point3",
            qualname |-> "Point3", base |-> "Point",
            init |-> "ClassWorkBase",
            dict |-> <<Fld(S("z"), IntV(0))>>]
      [] c = "Local" ->  \* a class declared inside a function
           [module |-> "classwork.usr.classes", name |-> "Local",
            qualname |-> "make.<locals>.Local", base |-> "ClassWorkBase",
            init |-> "ClassWorkBase",
            dict |-> <<Fld(S("x"), IntV(0))>>]
      [] c = "Params" ->  \* class Params(ParamsAbc, OperableAbc)
           [module |-> "classwork.usr.classes", name |-> "Params",
            qualname |-> "Params", base |-> "object",
            init |-> "ParamsAbc",
            dict |-> <<Fld(U("method"), StrV(S("="))),
                       Fld(S("a"), IntV(1)), Fld(S("b"), IntV(2))>>]
      [] c = "SubParams" ->  \* class SubParams(Params)
           [module |-> "classwork.usr.classes", name |-> "SubParams",
            qualname |-> "SubParams", base |-> "Params",
            init |-> "ParamsAbc",
            dict |-> << >>]]

\* the classes in the order their class statements ran
ClassOrder == <<"ClassWorkBase", "MultiIndexDict", "ParamSet", "Point",
                "Label", "Point3", "Local", "Params", "SubParams">>
ClassIds == {ClassOrder[i] : i \in 1..Len(ClassOrder)}

cls_nm(c) == S(ClassDef[c].module \o "." \o ClassDef[c].qualname)
QualName(c) == S(ClassDef[c].qualname)
Name(c) == S(ClassDef[c].name)

RECURSIVE IsSubclass(_, _)
IsSubclass(c, b) ==
  \/ c = b
  \/ c # "object" /\ IsSubclass(ClassDef[c].base, b)

\* a registry that flattens all descendants
Subclasses_deep(c) == SelectSeq(ClassOrder, LAMBDA s : s # c /\ IsSubclass(s, c))

\* cls.__subclasses__(): the direct subclasses, in definition order
Subclasses(c) == SelectSeq(ClassOrder, LAMBDA s : ClassDef[s].base = c)

\* the class __dict__ entry found for name k along the MRO of c, or none
RECURSIVE ClassEntry(_, _)
ClassEntry(c, k) ==
  IF c = "object" THEN [kind |-> "missing"]
  ELSE LET hit == SelectSeq(ClassDef[c].dict, LAMBDA e : e.k = k)
       IN IF hit # <<>> THEN hit[1] ELSE ClassEntry(ClassDef[c].base, k)

\* what attribute access through an instance yields for a class entry
Bind(e) ==
  CASE e.kind = "value" -> e.v
    [] e.kind = "function" -> MethV(e.k)
    [] e.kind = "classmethod" -> MethV(e.k)
    [] e.kind = "staticmethod" -> e.v
    [] e.kind = "class" -> e.v

hasattr(o, k) == Has(o.d, k) \/ ClassEntry(o.cls, k).kind # "missing"
getattr(o, k) == IF Has(o.d, k) THEN Get(o.d, k) ELSE Bind(ClassEntry(o.cls, k))

ismethod(v) == v.t = "method"
isclass(v) == v.t = "class"

Ok(v) == [err |-> "none", v |-> v]
Err(e) == [err |-> e]

\* the element of a one-element set: The({e(r) : r \in {x}}) is e(x), with x
\* written and evaluated once
The(s) == CHOOSE v \in s : TRUE

----------------------------------------------------------------------------
(* ClassWorkBase: the attribute store (bases.py) over ClassworkAbc (meta.py) *)

DA == U("default_attrs")

\* the list computed by ClassWorkBase.__init__ from the instance's own class
default_attrs(c) ==
  LET own == SelectSeq(ClassDef[c].dict,
                       LAMBDA e : ~ (\/ ismethod(Bind(ClassEntry(c, e.k)))
                                     \/ isclass(Bind(ClassEntry(c, e.k)))
                                     \/ StartsWith1(e.k)))
  IN ListV([i \in 1..Len(own) |-> StrV(own[i].k)])

\* Python's "attr in container" for a string attr
CanContain(c) == c.t \in {"list", "tuple", "dict"}
StrIn(attr, c) ==
  CASE c.t \in {"list", "tuple"} -> \E i \in 1..Len(c.l) : c.l[i] = StrV(attr)
    [] c.t = "dict" -> Has(c.m, attr)

\* ClassworkAbc.__getitem__ through ClassWorkBase.__getitem__
GetItem(o, attr) ==
  IF ~ hasattr(o, attr) THEN Err("KeyError") ELSE Ok(getattr(o, attr))

\* ClassworkAbc.__setitem__: setattr on the instance
AbcSetItem(o, attr, value) == [o EXCEPT !.d = Put(o.d, attr, value)]

\* ClassWorkBase.__setitem__: [err, o] with o the instance afterwards
SetItem(o, attr, value) ==
  The({ IF ~ CanContain(da) THEN [err |-> "TypeError", o |-> o]
        ELSE [err |-> "none",
              o |-> AbcSetItem(o, IF ~ StrIn(attr, da) THEN Hide(attr) ELSE attr,
                               value)]
        : da \in {getattr(o, DA)} })

\* ClassWorkBase.__iter__, as list(self)
Iterate(o) ==
  The({ CASE da.t \in {"list", "tuple"} -> Ok([i \in 1..Len(da.l) |-> da.l[i]])
          [] da.t = "dict" ->
               Ok([i \in 1..Len(da.m) |-> StrV(KeySeq(da.m)[i])])
          [] OTHER -> Err("TypeError")
        : da \in {getattr(o, DA)} })

\* ClassWorkBase.asdict
asdict(o, defaults, hidden) ==
  LET own == SelectSeq(ClassDef[o.cls].dict, LAMBDA e : ~ StartsWith2(e.k))
      d0 == IF defaults THEN [i \in 1..Len(own) |-> <<own[i].k, own[i].v>>]
            ELSE << >>
      d1 == UpdateMap(d0, o.d)
  IN IF ~ hidden THEN Public(d1) ELSE d1

\* ClassworkAbc.update: self[attr] = value for each item in order; a failing
\* assignment leaves the earlier ones in place
RECURSIVE UpdateItems(_, _)
UpdateItems(o, m) ==
  IF m = <<>> THEN [err |-> "none", o |-> o]
  ELSE The({ IF r.err # "none" THEN r ELSE UpdateItems(r.o, Tail(m))
             : r \in {SetItem(o, Head(m)[1], Head(m)[2])} })

----------------------------------------------------------------------------
(* Construction: ClassworkAbc.__new__, then the __init__ of the class made *)

CLS == U("cls")
PARAMS == U("params")

\* the lookup table ClassworkAbc.__new__ builds for cls
kcls(c) ==
  LET subs == Subclasses(c)
      own == Put(Put(<< >>, cls_nm(c), c), QualName(c), c)
      full == UpdateMap(own, [i \in 1..Len(subs) |-> <<cls_nm(subs[i]), subs[i]>>])
  IN UpdateMap(full, [i \in 1..Len(subs) |-> <<QualName(subs[i]), subs[i]>>])

\* kcls[cls_nm]: the class, or the outcome of a failed lookup
Resolve(c, tag) ==
  CASE tag.t = "str" ->
         The({ IF Has(k, tag.s) THEN [err |-> "none", cls |-> Get(k, tag.s)]
               ELSE [err |-> "Exception"]
               : k \in {kcls(c)} })
    [] tag.t \in {"list", "dict"} -> [err |-> "TypeError"]
    [] OTHER -> [err |-> "Exception"]

\* ClassworkAbc.__new__(cls, params, **kw): [err, cls, p] with cls the class of
\* the instance made and p the caller's params dict afterwards
New(c, p, kw) ==
  LET p1 == UpdateMap(p, kw)
  IN IF ~ Has(p1, CLS) THEN [err |-> "none", cls |-> c, p |-> p1]
     ELSE LET p2 == Pop(p1, CLS)
              pv == Get(p2, PARAMS)
              p3 == Pop(p2, PARAMS)
          IN The({ IF r.err # "none" THEN [err |-> r.err, cls |-> c, p |-> p2]
                   ELSE IF ~ Has(p2, PARAMS)
                   THEN [err |-> "none", cls |-> r.cls, p |-> p2]
                   ELSE IF pv.t = "dict"
                   THEN [err |-> "none", cls |-> r.cls, p |-> UpdateMap(p3, pv.m)]
                   ELSE [err |-> "TypeError", cls |-> r.cls, p |-> p3]
                   : r \in {Resolve(c, Get(p1, CLS))} })

\* ClassWorkBase.__init__ and ClassworkAbc.__init__ on a fresh instance of c
InitBase(c, p, kwargs) ==
  LET o0 == [cls |-> c, d |-> << <<DA, default_attrs(c)>> >>]
      pp == UpdateMap(p, kwargs)
  IN UpdateItems(o0, IF Has(pp, CLS) THEN Pop(pp, CLS) ELSE pp)

Truthy(v) ==
  CASE v.t = "int" -> v.n # 0
    [] v.t = "none" -> FALSE
    [] v.t \in {"list", "tuple"} -> v.l # << >>
    [] v.t = "dict" -> v.m # << >>
    [] v.t = "str" -> v.s # S("")
    [] v.t = "range" -> v.start.n < v.stop.n
    [] OTHER -> TRUE

\* isinstance(itm, ClassWorkBase) for an item of a collection
IsChild(h, itm) == itm.t = "obj" /\ IsSubclass(h[itm.id].cls, "ClassWorkBase")

\* ParamSet._check_collection(collection) with child = ClassWorkBase
check_collection(h, collection) ==
  CASE collection.t \in {"list", "tuple"} ->
         IF \A i \in 1..Len(collection.l) : IsChild(h, collection.l[i])
         THEN Ok(TupV(collection.l)) ELSE Err("AssertionError")
    [] collection.t = "str" ->  \* a str is a Sequence of one-character strs
         IF collection.s = S("") THEN Ok(TupV(<< >>)) ELSE Err("AssertionError")
    [] collection.t = "range" ->  \* a range is a Sequence of ints
         IF ~ Truthy(collection) THEN Ok(TupV(<< >>)) ELSE Err("AssertionError")
    [] collection.t = "dict" ->
         IF \A i \in 1..Len(collection.m) : IsChild(h, Values(collection.m)[i])
         THEN Ok(TupV(Values(collection.m))) ELSE Err("AssertionError")
    [] collection.t = "obj" /\ IsChild(h, collection) ->
         The({ IF it.err # "none" THEN it ELSE Ok(TupV(it.v))
               : it \in {Iterate(h[collection.id])} })
    [] OTHER -> Err("TypeError")

\* ParamSet.__init__(params, collection=[], *, scen_keys, geo_keys, date_key, **kwargs)
InitParamSet(h, c, p, kw) ==
  LET COLL == S("collection")
      collection == IF Has(kw, COLL) THEN Get(kw, COLL) ELSE ListV(<< >>)
      arg(i) == IF Has(kw, IndexNames[i]) THEN Get(kw, IndexNames[i]) ELSE NoneV
      rest == Without(kw, {COLL} \cup {IndexNames[i] : i \in 1..3})
      given == SelectSeq([i \in 1..3 |-> <<IndexNames[i], arg(i)>>],
                         LAMBDA e : Truthy(e[2]))
      kwargs == UpdateMap(rest, given)
  IN The({ IF r.err # "none" THEN r
           ELSE IF cc.err # "none" THEN [err |-> cc.err, o |-> r.o]
           ELSE [err |-> "none", o |-> [r.o EXCEPT !.d = Put(r.o.d, COLL, cc.v)]]
           : r \in {InitBase(c, p, UpdateMap(<< <<COLL, collection>> >>, kwargs))},
             cc \in {check_collection(h, collection)} })

\* cls(params, **kw): [err, o, p]
Instantiate(h, c, p, kw) ==
  The({ IF n.err # "none" THEN [err |-> n.err, p |-> n.p]
        ELSE The({ IF r.err # "none" THEN [err |-> r.err, p |-> n.p]
                   ELSE [err |-> "none", o |-> r.o, p |-> n.p]
                   : r \in {IF ClassDef[n.cls].init = "ParamSet"
                            THEN InitParamSet(h, n.cls, n.p, kw)
                            ELSE InitBase(n.cls, n.p, kw)} })
        : n \in {New(c, p, kw)} })

----------------------------------------------------------------------------
(* The JSON envelope: to_json_str and from_json (bases.py), json.dumps/loads *)

\* whether json.dumps accepts v with the stock encoder ClassworkEncoder
RECURSIVE Encodable(_)
Encodable(v) ==
  CASE v.t \in {"int", "str", "none"} -> TRUE
    [] v.t \in {"list", "tuple"} -> \A i \in 1..Len(v.l) : Encodable(v.l[i])
    [] v.t = "dict" -> \A i \in 1..Len(v.m) : Encodable(v.m[i][2])
    [] OTHER -> FALSE

\* json.dumps of an encodable value: the JSON text, as its parse tree
RECURSIVE Dumps(_)
Dumps(v) ==
  CASE v.t = "int" -> [j |-> "number", n |-> v.n]
    [] v.t = "str" -> [j |-> "string", s |-> v.s]
    [] v.t = "none" -> [j |-> "null"]
    [] v.t \in {"list", "tuple"} ->
         [j |-> "array", l |-> [i \in 1..Len(v.l) |-> Dumps(v.l[i])]]
    [] v.t = "dict" ->
         [j |-> "object",
          m |-> [i \in 1..Len(v.m) |-> <<v.m[i][1], Dumps(v.m[i][2])>>]]

\* json.loads with the stock decoder ClassworkDecoder
RECURSIVE Loads(_)
Loads(js) ==
  CASE js.j = "number" -> IntV(js.n)
    [] js.j = "string" -> StrV(js.s)
    [] js.j = "null" -> NoneV
    [] js.j = "array" -> ListV([i \in 1..Len(js.l) |-> Loads(js.l[i])])
    [] js.j = "object" ->
         DictV([i \in 1..Len(js.m) |-> <<js.m[i][1], Loads(js.m[i][2])>>])

\* ClassWorkBase._class_dict
class_dict(o, defaults, hidden) ==
  << <<CLS, StrV(Name(o.cls))>>, <<PARAMS, DictV(asdict(o, defaults, hidden))>> >>

\* ClassWorkBase.to_json_str
to_json_str(o, defaults, hidden) ==
  LET env == DictV(class_dict(o, defaults, hidden))
  IN IF Encodable(env) THEN Ok(Dumps(env)) ELSE Err("TypeError")

\* ClassWorkBase.from_json(json_str=doc) called on class c
from_json(h, c, doc) == Instantiate(h, c, UpdateMap(<< >>, Loads(doc).m), << >>)

----------------------------------------------------------------------------
(* State and actions *)

\* text: the document, the instance it was written from (as it then was) and
\* whether it was written with the default flags
NoText ==
  [doc |-> [j |-> "null"], of |-> [cls |-> "none", d |-> << >>], plain |-> FALSE]
NoCall == [op |-> "none"]
NoRes == [err |-> "unset"]

Live == 1..Len(heap)
Store == [p \in Live |-> heap[p]]

\* obj = cls(p, **kw)
Construct(c, p, kw) ==
  \E r \in {Instantiate(heap, c, p, kw)} :
     /\ params' = r.p
     /\ heap' = IF r.err = "none" THEN Append(heap, r.o) ELSE heap
     /\ last' = [op |-> "construct", cls |-> c, arg |-> p, kw |-> kw,
                 err |-> r.err, id |-> IF r.err = "none" THEN Len(heap) + 1 ELSE 0]
     /\ UNCHANGED <<text, kx, ky, kres>>

\* obj[attr] = value
Set(i, attr, value) ==
  LET r == SetItem(heap[i], attr, value)
  IN /\ heap' = [heap EXCEPT ![i] = r.o]
     /\ last' = [op |-> "set", id |-> i, name |-> attr, val |-> value,
                 err |-> r.err]
     /\ UNCHANGED <<params, text, kx, ky, kres>>

\* obj.update(m)
Update(i, m) ==
  LET r == UpdateItems(heap[i], m)
  IN /\ heap' = [heap EXCEPT ![i] = r.o]
     /\ last' = [op |-> "update", id |-> i, arg |-> m, err |-> r.err]
     /\ UNCHANGED <<params, text, kx, ky, kres>>

\* text = obj.to_json_str(defaults, hidden)
Encode(i, defaults, hidden) ==
  LET r == to_json_str(heap[i], defaults, hidden)
  IN /\ text' = IF r.err = "none"
              THEN [doc |-> r.v, of |-> heap[i], plain |-> ~ defaults /\ ~ hidden]
              ELSE text
     /\ last' = [op |-> "encode", id |-> i, defaults |-> defaults,
                 hidden |-> hidden, err |-> r.err]
     /\ UNCHANGED <<heap, params, kx, ky, kres>>

\* a JSON document written by someone else arrives
Receive(doc) ==
  /\ text' = [doc |-> doc, of |-> NoText.of, plain |-> FALSE]
  /\ last' = [op |-> "receive"]
  /\ UNCHANGED <<heap, params, kx, ky, kres>>

\* obj = c.from_json(json_str=text)
Decode(c) ==
  /\ text # NoText
  /\ \E r \in {from_json(heap, c, text.doc)} :
     /\ heap' = IF r.err = "none" THEN Append(heap, r.o) ELSE heap
     /\ last' = [op |-> "decode", cls |-> c, err |-> r.err,
                 id |-> IF r.err = "none" THEN Len(heap) + 1 ELSE 0]
     /\ UNCHANGED <<params, text, kx, ky, kres>>

InitCommon ==
  /\ heap = << >>
  /\ params = << >>
  /\ text = NoText
  /\ last = NoCall
  /\ kx = NoneV
  /\ ky = NoneV
  /\ kres = NoRes

----------------------------------------------------------------------------
(* The attribute store: construct, set, update *)

X == S("x")
EXTRA == S("extra")

StoreClasses == {"Point"}
StoreParams ==
  { << >>,
    << <<X, IntV(1)>> >>,
    << <<EXTRA, IntV(1)>>, <<X, IntV(1)>> >>,
    << <<X, IntV(1)>>, <<PARAMS, DictV(<< <<X, IntV(2)>> >>)>> >>,
    << <<CLS, StrV(S("Point"))>>, <<X, IntV(1)>>,
       <<PARAMS, DictV(<< <<X, IntV(2)>> >>)>> >>,
    << <<CLS, StrV(S("Nope"))>>, <<PARAMS, DictV(<< <<X, IntV(2)>> >>)>> >> }
StoreKw == { << >>, << <<X, IntV(MaxInt)>> >> }
SetInputs ==
  { <<X, IntV(1)>>, <<EXTRA, IntV(1)>>,
    <<S("default_attrs"), IntV(1)>>,
    <<S("default_attrs"), ListV(<<StrV(EXTRA)>>)>> }
UpdateInputs ==
  { << <<S("default_attrs"), ListV(<<StrV(EXTRA)>>)>>, <<EXTRA, IntV(MaxInt)>> >> }

Init == InitCommon

Next ==
  \/ \E c \in StoreClasses, p \in StoreParams, kw \in StoreKw :
       Len(heap) < MaxObjs /\ Construct(c, p, kw)
  \/ \E i \in Live, nv \in SetInputs : Set(i, nv[1], nv[2])
  \/ \E i \in Live, m \in UpdateInputs : Update(i, m)

Spec == Init /\ [][Next]_vars

\* the names list(obj) yields, or none when iteration fails
IterNames(o) ==
  IF Iterate(o).err = "none" THEN {Iterate(o).v[i] : i \in 1..Len(Iterate(o).v)}
  ELSE {}

\* C3: after set("extra", 1) on a record whose class declares no extra, extra
\* is absent from iterate() and from project(false, false), and
\* project(false, true) holds the key extra with value 1.
C3_Visibility ==
  (last.op = "set" /\ last.name = EXTRA /\ last.val = IntV(1) /\ last.err = "none")
  => LET o == heap[last.id]
     IN /\ StrV(EXTRA) \notin IterNames(o)
        /\ ~ Has(asdict(o, FALSE, FALSE), EXTRA)
        /\ Has(asdict(o, FALSE, TRUE), EXTRA)
        /\ Get(asdict(o, FALSE, TRUE), EXTRA) = IntV(1)

StoreNames == {X, S("y"), EXTRA}

\* C4: after set(n, v), get(n) returns v; and get(n) fails only when n has no
\* instance slot, no hidden slot and no declared-default value.
C4_GetAfterSet ==
  /\ (last.op = "set" /\ last.err = "none")
       => GetItem(heap[last.id], last.name) = Ok(last.val)
  /\ \A i \in Live, n \in StoreNames :
       GetItem(heap[i], n).err # "none"
         => ~ (\/ Has(heap[i].d, n)
               \/ Has(heap[i].d, Hide(n))
               \/ ClassEntry(heap[i].cls, n).kind = "value")

----------------------------------------------------------------------------
(* The codec: records built on declared names, written and read back *)

CodecClasses == {"Point", "Local"}
CodecParams ==
  { << >>, << <<X, IntV(1)>>, <<S("y"), IntV(MaxInt)>> >> }
CodecSets == { <<X, TupV(<<IntV(1)>>)>>, <<X, DateV(1)>> }
CodecFlags == { <<FALSE, FALSE>>, <<TRUE, TRUE>> }

NextCodec ==
  \/ \E c \in CodecClasses, p \in CodecParams :
       Len(heap) < MaxCodecObjs /\ Construct(c, p, << >>)
  \/ \E i \in Live, nv \in CodecSets : Set(i, nv[1], nv[2])
  \/ \E i \in Live, f \in CodecFlags : Encode(i, f[1], f[2])
  \/ \E c \in CodecClasses : Len(heap) < MaxCodecObjs /\ Decode(c)

SpecCodec == InitCommon /\ [][NextCodec]_vars

\* a record whose state came only from construct/set on declared names
Clean(o) ==
  /\ Has(o.d, DA) /\ Get(o.d, DA) = default_attrs(o.cls)
  /\ \A k \in Keys(o.d) : k = DA \/ (~ StartsWith1(k) /\ StrIn(k, default_attrs(o.cls)))

\* C1: for a record r built only through construct/set on declared names,
\* encode(r) succeeds and decode(encode(r)) on r's own class yields a record
\* whose project(false, false) equals that of r, key for key, value for value.
C1_RoundTrip ==
  /\ (last.op = "encode" /\ ~ last.defaults /\ ~ last.hidden /\ Clean(heap[last.id]))
       => last.err = "none"
  /\ (last.op = "decode" /\ text.plain /\ Clean(text.of) /\ last.cls = text.of.cls)
       => /\ last.err = "none"
          /\ AsFun(asdict(heap[last.id], FALSE, FALSE))
               = AsFun(asdict(text.of, FALSE, FALSE))

----------------------------------------------------------------------------
(* Class resolution: envelopes of every class read back through every class *)

Family == {c \in ClassIds : IsSubclass(c, "ClassWorkBase")}

\* an envelope as another writer would produce it
Envelope(tag) ==
  Dumps(DictV(<< <<CLS, tag>>, <<PARAMS, DictV(<< <<X, IntV(1)>> >>)>> >>))
ForeignDocs ==
  {Envelope(StrV(cls_nm(c))) : c \in Family}
    \cup {Envelope(StrV(S("Nope"))), Envelope(IntV(MaxInt))}

NextResolve ==
  \/ \E c \in Family :
       Len(heap) < MaxResolveObjs /\ Construct(c, << <<X, IntV(1)>> >>, << >>)
  \/ \E i \in Live : Encode(i, FALSE, FALSE)
  \/ \E doc \in ForeignDocs : Receive(doc)
  \/ \E c \in Family : Len(heap) < MaxResolveObjs /\ Decode(c)

SpecResolve == InitCommon /\ [][NextResolve]_vars

\* the type tag of the document in text
TagOf(t) == Get(Loads(t.doc).m, CLS)
\* the classes a tag names: by identity (module and qualified name) or by
\* qualified name
NamedBy(tag) == {c \in ClassIds : tag \in {StrV(cls_nm(c)), StrV(QualName(c))}}

----------------------------------------------------------------------------
(* MultiIndexDict.keymatch and match (bases.py) *)

IsScalar(v) == v.t \in {"str", "date", "int"}
IsRange(v) == v.t \in {"range", "slice"}
IsSequence(v) == v.t \in {"list", "tuple", "str", "range"}

\* a >= b and a < b raise TypeError unless both are numbers or both dates
\* (the order of strings is not modelled: no operand is a string-bounded slice)
Orderable(a, b) == a.t = b.t /\ a.t \in {"int", "date"}
Num(a) == IF a.t = "int" THEN a.n ELSE a.day

\* (key >= rng.start) & (key < rng.stop)
InRange(key, rng) ==
  IF Orderable(key, rng.start) /\ Orderable(key, rng.stop)
  THEN [err |-> "none", warn |-> FALSE,
        v |-> Num(key) >= Num(rng.start) /\ Num(key) < Num(rng.stop)]
  ELSE [err |-> "TypeError", warn |-> FALSE]

Hashable(v) == v.t \notin {"list", "dict"}
Elems(v) == {v.l[i] : i \in 1..Len(v.l)}

\* scalar in coll, for the collection shapes keymatch tests
Contained(scalar, coll) ==
  CASE coll.t \in {"list", "tuple"} -> scalar \in Elems(coll)
    [] coll.t = "dict" -> \E i \in 1..Len(coll.m) : coll.m[i][2] = scalar
    [] OTHER -> FALSE

\* keymatch(key_x, key_y): [err, v, warn]
keymatch(key_x, key_y) ==
  LET Res(b) == [err |-> "none", warn |-> FALSE, v |-> b]
  IN IF key_x.t = "none" \/ key_y.t = "none" THEN Res(TRUE)
     ELSE IF IsScalar(key_x) /\ IsScalar(key_y) THEN Res(key_x = key_y)
     ELSE IF IsRange(key_x) \/ IsRange(key_y)
       THEN IF IsRange(key_y) THEN InRange(key_x, key_y) ELSE InRange(key_y, key_x)
     ELSE IF IsScalar(key_x) # IsScalar(key_y)
       THEN IF IsScalar(key_x) THEN Res(Contained(key_x, key_y))
            ELSE Res(Contained(key_y, key_x))
     ELSE IF IsSequence(key_x) /\ IsSequence(key_y)
       THEN IF \A e \in Elems(key_x) \cup Elems(key_y) : Hashable(e)
            THEN Res(Elems(key_x) \cap Elems(key_y) # {})
            ELSE [err |-> "TypeError", warn |-> FALSE]
     ELSE [err |-> "none", warn |-> TRUE, v |-> FALSE]

A == S("a")
KeyOperands ==
  { NoneV, IntV(1), IntV(MaxInt), StrV(A), DateV(1),
    RangeV(0, MaxInt), SliceV(NoneV, IntV(MaxInt)),
    ListV(<<IntV(1), StrV(A)>>), TupV(<<IntV(MaxInt)>>), ListV(<< >>),
    DictV(<< <<A, IntV(1)>> >>), DictV(<< <<S("b"), IntV(MaxInt)>> >>) }

InitKey ==
  /\ heap = << >> /\ params = << >> /\ text = NoText /\ last = NoCall
  /\ kx \in KeyOperands /\ ky \in KeyOperands
  /\ kres = NoRes

\* kres = keymatch(kx, ky)
Keymatch ==
  /\ kres = NoRes
  /\ kres' = keymatch(kx, ky)
  /\ UNCHANGED <<heap, params, text, last, kx, ky>>

\* the caller takes another pair of keys
Pick(x, y) ==
  /\ kres # NoRes
  /\ kx' = x /\ ky' = y /\ kres' = NoRes
  /\ UNCHANGED <<heap, params, text, last>>

NextKey ==
  \/ Keymatch
  \/ \E x, y \in KeyOperands : Pick(x, y)

SpecKey == InitKey /\ [][NextKey]_vars

\* the shapes the decision table speaks of
Unset(v) == v.t = "none"
Scalar(v) == v.t \in {"str", "date", "int"}
HalfOpen(v) == v.t \in {"range", "slice"}
Ordered(v) == v.t \in {"list", "tuple"}
Keyed(v) == v.t = "dict"
\* v lies in [start, stop)
LiesIn(v, r) ==
  /\ v.t = "int"
  /\ (r.start.t = "int" => r.start.n <= v.n)
  /\ (r.stop.t = "int" => v.n < r.stop.n)
ElementOf(v, c) ==
  IF Ordered(c) THEN \E i \in 1..Len(c.l) : c.l[i] = v
  ELSE \E k \in Keys(c.m) : Get(c.m, k) = v
\* the result of the first applicable rule of the table
Table(x, y) ==
  CASE Unset(x) \/ Unset(y) -> TRUE
    [] ~ (Unset(x) \/ Unset(y)) /\ Scalar(x) /\ Scalar(y) -> x = y
    [] ~ (Unset(x) \/ Unset(y)) /\ ~ (Scalar(x) /\ Scalar(y))
         /\ (HalfOpen(x) \/ HalfOpen(y)) ->
         IF HalfOpen(y) THEN LiesIn(x, y) ELSE LiesIn(y, x)
    [] ~ (Unset(x) \/ Unset(y)) /\ ~ (HalfOpen(x) \/ HalfOpen(y))
         /\ Scalar(x) /\ (Ordered(y) \/ Keyed(y)) -> ElementOf(x, y)
    [] ~ (Unset(x) \/ Unset(y)) /\ ~ (HalfOpen(x) \/ HalfOpen(y))
         /\ Scalar(y) /\ (Ordered(x) \/ Keyed(x)) -> ElementOf(y, x)
    [] Ordered(x) /\ Ordered(y) ->
         \E i \in 1..Len(x.l), j \in 1..Len(y.l) : x.l[i] = y.l[j]
    [] OTHER -> FALSE

\* C5: for every pair of operands among unset, scalar, half-open range,
\* ordered sequence and keyed map, keymatch(x, y) equals the result of the
\* first applicable rule of the decision table.
C5_DecisionTable ==
  kres # NoRes => kres.err = "none" /\ kres.v = Table(kx, ky)

\* C6: keymatch is total: for every pair of operands it returns true or
\* false and never fails; the unsupported combinations return false with a
\* diagnostic warning.
C6_Total ==
  kres # NoRes
    => /\ kres.err = "none" /\ kres.v \in BOOLEAN
       /\ ((Keyed(kx) /\ (Keyed(ky) \/ Ordered(ky))) => (~ kres.v /\ kres.warn))

----------------------------------------------------------------------------
(* MultiIndexDict.match on a ParamSet *)

INDEXES == S("indexes")

\* any(...) in place of all(...)
RECURSIVE AnyOf(_)
AnyOf(rs) ==
  IF rs = << >> THEN Ok(FALSE)
  ELSE IF Head(rs).err # "none" THEN Err(Head(rs).err)
  ELSE LET rest == AnyOf(Tail(rs))
       IN IF rest.err # "none" THEN rest ELSE Ok(Head(rs).v \/ rest.v)

\* the first failure among the outcomes, else the conjunction of the values
RECURSIVE AllOf(_)
AllOf(rs) ==
  IF rs = << >> THEN Ok(TRUE)
  ELSE IF Head(rs).err # "none" THEN Err(Head(rs).err)
  ELSE LET rest == AllOf(Tail(rs))
       IN IF rest.err # "none" THEN rest ELSE Ok(Head(rs).v /\ rest.v)

\* all([self.keymatch(keys[x], self[x]) for x in keys_present])
MatchAll(o, keys, present) ==
  AllOf([i \in 1..Len(present) |->
           IF GetItem(o, present[i]).err # "none" THEN GetItem(o, present[i])
           ELSE keymatch(Get(keys, present[i]), GetItem(o, present[i]).v)])

\* self.match(ignore_missing=..., **keys): [err, v]
match(o, ignore_missing, keys) ==
  IF ~ hasattr(o, INDEXES) THEN Err("AttributeError")
  ELSE IF ~ CanContain(getattr(o, INDEXES)) THEN Err("TypeError")
  ELSE LET indexes == getattr(o, INDEXES)
           keys_present == SelectSeq(KeySeq(keys), LAMBDA k : StrIn(k, indexes))
           keys_missing == SelectSeq(KeySeq(keys), LAMBDA k : ~ StrIn(k, indexes))
       IN IF Len(keys_missing) > 0 /\ ~ ignore_missing THEN Err("KeyError")
          ELSE MatchAll(o, keys, keys_present)

\* obj.match(ignore_missing=..., **keys)
Match(i, ignore_missing, keys) ==
  /\ last' = [op |-> "match", id |-> i, ignore |-> ignore_missing, keys |-> keys,
              res |-> match(heap[i], ignore_missing, keys)]
  /\ UNCHANGED <<heap, params, text, kx, ky, kres>>

SCEN == S("scen_keys")
DATE == S("date_key")
FOO == S("foo")
MatchKw ==
  { << >>,
    << <<SCEN, ListV(<<StrV(A), StrV(S("b"))>>)>> >>,
    << <<SCEN, StrV(A)>>, <<DATE, IntV(1)>> >>,
    << <<DATE, IntV(MaxInt)>>, <<FOO, IntV(1)>> >> }
MatchValues == {StrV(A), IntV(1), RangeV(0, MaxInt), ListV(<<StrV(S("c"))>>)}
\* the criteria: maps over one or two of the keys
Criteria ==
  {<< >>}
    \cup {<< <<k, v>> >> : k \in {SCEN, DATE, FOO}, v \in MatchValues}
    \cup {<< <<k[1], v>>, <<k[2], w>> >> :
            k \in {<<SCEN, DATE>>, <<FOO, SCEN>>},
            v \in MatchValues, w \in MatchValues}

NextMatch ==
  \/ \E kw \in MatchKw :
       Len(heap) < MaxMatchObjs /\ Construct("ParamSet", << >>, kw)
  \/ \E i \in Live : Set(i, INDEXES, ListV(<<StrV(DATE), StrV(FOO)>>))
  \/ \E i \in Live, ig \in BOOLEAN, keys \in Criteria : Match(i, ig, keys)

SpecMatch == InitCommon /\ [][NextMatch]_vars

\* the declared index names of a record
Declared(o) == {k \in {SCEN, S("geo_keys"), DATE, FOO} : StrIn(k, getattr(o, INDEXES))}

\* C7: match(criteria, ignore_missing=true) is true iff keymatch(criteria[k],
\* self[k]) is true for every criteria key k that is a declared index; keys
\* outside the declared indexes never change the result, and criteria with
\* no declared key yield true.
C7_Conjunction ==
  (last.op = "match" /\ last.ignore)
  => LET o == heap[last.id]
         inI == Keys(last.keys) \cap Declared(o)
         holds(k) == /\ GetItem(o, k).err = "none"
                     /\ keymatch(Get(last.keys, k), GetItem(o, k).v).err = "none"
                     /\ keymatch(Get(last.keys, k), GetItem(o, k).v).v
     IN /\ (last.res = Ok(TRUE)) <=> (\A k \in inI : holds(k))
        /\ \A c \in Criteria :
             AsFun(Restrict(c, Declared(o)))
               = AsFun(Restrict(last.keys, Declared(o)))
             => match(o, TRUE, c) = last.res
        /\ inI = {} => last.res = Ok(TRUE)

\* a criterion on a declared index rejected while a foreign key is present
C7_Witness ==
  /\ last.op = "match" /\ last.ignore /\ last.res = Ok(FALSE)
  /\ Keys(last.keys) = {SCEN, FOO}
  /\ Has(heap[last.id].d, SCEN)

----------------------------------------------------------------------------
(* ParamsAbc records and the combinator OperableAbc._op (meta.py) *)

FloatV(n, d) == [t |-> "float", num |-> n, den |-> d]
IsNumber(v) == v.t \in {"int", "float"}
Numer(v) == IF v.t = "int" THEN v.n ELSE v.num
Denom(v) == IF v.t = "int" THEN 1 ELSE v.den
\* the number n/d, an int when both operands were ints
Number(x, y, n, d) == IF x.t = "int" /\ y.t = "int" THEN IntV(n) ELSE FloatV(n, d)

\* ParamsAbc.__getitem__
ParamsGetItem(o, attr) ==
  IF hasattr(o, attr) THEN Ok(getattr(o, attr))
  ELSE IF hasattr(o, Hide(attr)) THEN Ok(getattr(o, Hide(attr)))
  ELSE Err("KeyError")

\* ParamsAbc.__setitem__
ParamsSetItem(o, attr, value) ==
  LET hidden == IF ~ StartsWith1(attr) THEN Hide(attr) ELSE attr
  IN [o EXCEPT !.d = Put(o.d, IF hasattr(o, attr) THEN attr ELSE hidden, value)]

\* ParamsAbc.__init__(params, **kwargs) on a fresh instance of c
RECURSIVE ParamsSetAll(_, _)
ParamsSetAll(o, m) ==
  IF m = << >> THEN o
  ELSE ParamsSetAll(ParamsSetItem(o, Head(m)[1], Head(m)[2]), Tail(m))
ParamsInit(c, p, kwargs) ==
  ParamsSetAll([cls |-> c, d |-> << >>], UpdateMap(UpdateMap(<< >>, p), kwargs))

\* ParamsAbc.as_dict
as_dict(o, hidden, defaults) ==
  LET own == SelectSeq(ClassDef[o.cls].dict,
                       LAMBDA e : e.kind # "function" /\ ~ StartsWith2(e.k))
      d0 == IF defaults THEN [i \in 1..Len(own) |-> <<own[i].k, own[i].v>>]
            ELSE << >>
      d1 == UpdateMap(d0, o.d)
  IN IF ~ hidden THEN Public(d1) ELSE d1

\* ParamsAbc.keys
keys(o) == KeySeq(as_dict(o, FALSE, FALSE))

\* the operator table of _op
OpNames == {"=", "assign", "+", "add", "-", "sub", "*", "mul", "/", "truediv"}
op_dct(name, x, y) ==
  CASE name \in {"=", "assign"} -> Ok(y)
    [] name \in {"+", "add"} /\ IsNumber(x) /\ IsNumber(y) ->
         Ok(Number(x, y, Numer(x) * Denom(y) + Numer(y) * Denom(x), Denom(x) * Denom(y)))
    [] name \in {"-", "sub"} /\ IsNumber(x) /\ IsNumber(y) ->
         Ok(Number(x, y, Numer(x) * Denom(y) - Numer(y) * Denom(x), Denom(x) * Denom(y)))
    [] name \in {"*", "mul"} /\ IsNumber(x) /\ IsNumber(y) ->
         Ok(Number(x, y, Numer(x) * Numer(y), Denom(x) * Denom(y)))
    [] name \in {"/", "truediv"} /\ IsNumber(x) /\ IsNumber(y) ->
         IF Numer(y) = 0 THEN Err("ZeroDivisionError")
         ELSE Ok(FloatV(Numer(x) * Denom(y), Denom(x) * Numer(y)))
    [] OTHER -> Err("TypeError")

\* a check that accepts a subclass as the other operand
SameClass_isinstance(a, b) == IsSubclass(b.cls, a.cls)

\* other.__class__ is self.__class__
SameClass(a, b) == b.cls = a.cls

\* {k: fn(self[k], other[k]) for k in other.keys()}: [err, m]
RECURSIVE Combined(_, _, _, _)
Combined(a, b, name, ks) ==
  IF ks = << >> THEN [err |-> "none", m |-> << >>]
  ELSE The({ IF x.err # "none" THEN [err |-> x.err]
             ELSE IF y.err # "none" THEN [err |-> y.err]
             ELSE The({ IF v.err # "none" THEN [err |-> v.err]
                        ELSE IF rest.err # "none" THEN rest
                        ELSE [err |-> "none",
                              m |-> << <<Head(ks), v.v>> >> \o rest.m]
                        : v \in {op_dct(name, x.v, y.v)},
                          rest \in {Combined(a, b, name, Tail(ks))} })
             : x \in {ParamsGetItem(a, Head(ks))},
               y \in {ParamsGetItem(b, Head(ks))} })

\* a merge in which self's values win
op_keep_self(a, b, method) ==
  IF ~ SameClass(a, b) THEN Err("AssertionError")
  ELSE The({ IF ~ (name.t = "str" /\ name.s.u = 0 /\ name.s.b \in OpNames)
             THEN Err("AttributeError")
             ELSE The({ IF dct.err # "none" THEN Err(dct.err)
                        ELSE Ok(ParamsInit(a.cls, << >>,
                                           UpdateMap(dct.m, as_dict(a, FALSE, FALSE))))
                        : dct \in {Combined(a, b, name.s.b, keys(b))} })
             : name \in {IF ~ Truthy(method) THEN getattr(b, U("method"))
                         ELSE method} })

\* OperableAbc._op(self, other, _method): the new record, or the failure
op(a, b, method) ==
  IF ~ SameClass(a, b) THEN Err("AssertionError")
  ELSE The({ IF ~ (name.t = "str" /\ name.s.u = 0 /\ name.s.b \in OpNames)
             THEN Err("AttributeError")
             ELSE The({ IF dct.err # "none" THEN Err(dct.err)
                        ELSE Ok(ParamsInit(a.cls, << >>,
                                           UpdateMap(as_dict(a, FALSE, FALSE), dct.m)))
                        : dct \in {Combined(a, b, name.s.b, keys(b))} })
             : name \in {IF ~ Truthy(method) THEN getattr(b, U("method"))
                         ELSE method} })

\* obj = c(p)
ParamsConstruct(c, p) ==
  /\ heap' = Append(heap, ParamsInit(c, p, << >>))
  /\ last' = [op |-> "construct", cls |-> c, arg |-> p, kw |-> << >>,
              err |-> "none", id |-> Len(heap) + 1]
  /\ UNCHANGED <<params, text, kx, ky, kres>>

\* obj = heap[i]._op(heap[j], method)
Combine(i, j, method) ==
  \E r \in {op(heap[i], heap[j], method)} :
     /\ heap' = IF r.err = "none" THEN Append(heap, r.v) ELSE heap
     /\ last' = [op |-> "combine", a |-> i, b |-> j, method |-> method,
                 err |-> r.err, id |-> IF r.err = "none" THEN Len(heap) + 1 ELSE 0,
                 was |-> <<heap[i], heap[j]>>, size |-> Len(heap)]
     /\ UNCHANGED <<params, text, kx, ky, kres>>

OpClasses == {"Params", "SubParams"}
OpParams ==
  { << >>, << <<A, IntV(MaxInt)>> >>, << <<S("b"), IntV(0)>> >>,
    << <<A, IntV(1)>>, <<S("b"), IntV(1)>>, <<S("h"), IntV(1)>> >> }
OpMethods ==
  { StrV(S("add")), StrV(S("+")), StrV(S("truediv")), StrV(S("bogus")), NoneV }

NextOp ==
  \/ \E c \in OpClasses, p \in OpParams :
       Len(heap) < MaxOpObjs /\ ParamsConstruct(c, p)
  \/ \E i, j \in Live, m \in OpMethods : Len(heap) < MaxOpObjs /\ Combine(i, j, m)

SpecOp == InitCommon /\ [][NextOp]_vars

\* the public keys of a record's projected map
Projected(o) == Keys(as_dict(o, FALSE, FALSE))

\* r is the number x + y, an int exactly when x and y are ints
IsSum(r, x, y) ==
  /\ IsNumber(r) /\ IsNumber(x) /\ IsNumber(y)
  /\ (r.t = "int") = (x.t = "int" /\ y.t = "int")
  /\ Numer(r) * Denom(x) * Denom(y) =
       (Numer(x) * Denom(y) + Numer(y) * Denom(x)) * Denom(r)

\* C8: after a._op(b, "add") on two records of one class, a new record of
\* that class exists whose value at every key of b's projected map is
\* a[k] + b[k], whose value at every other key of a's projected map is a's
\* value, and a and b are as they were before the call
C8_CombineAdd ==
  (/\ last.op = "combine"
   /\ last.method \in {StrV(S("add")), StrV(S("+"))}
   /\ last.was[1].cls = last.was[2].cls)
  => (/\ last.err = "none"
      /\ last.id = Len(heap)
      /\ Len(heap) = last.size + 1
      /\ heap[last.id].cls = last.was[1].cls
      /\ \A k \in Projected(last.was[2]) :
           /\ ParamsGetItem(heap[last.id], k).err = "none"
           /\ IsSum(ParamsGetItem(heap[last.id], k).v,
                    ParamsGetItem(last.was[1], k).v, ParamsGetItem(last.was[2], k).v)
      /\ \A k \in Projected(last.was[1]) \ Projected(last.was[2]) :
           ParamsGetItem(heap[last.id], k) = ParamsGetItem(last.was[1], k)
      /\ heap[last.a] = last.was[1]
      /\ heap[last.b] = last.was[2])

\* a + b where b carries a key that a leaves at the class default, and a
\* carries a key that b lacks
C8_Witness ==
  /\ last.op = "combine"
  /\ last.method = StrV(S("add"))
  /\ last.err = "none"
  /\ last.a # last.b
  /\ last.was[1].cls = "Params"
  /\ Projected(last.was[1]) = {A}
  /\ Projected(last.was[2]) = {S("b")}
  /\ ParamsGetItem(heap[last.id], S("b")) = Ok(IntV(2))
  /\ ParamsGetItem(heap[last.id], A) = Ok(IntV(MaxInt))

\* C9: a._op(b, method) on records of different classes raises
\* AssertionError whatever the method names, produces no record and leaves
\* both operands as they were
C9_TypeCheck ==
  (/\ last.op = "combine"
   /\ last.was[1].cls # last.was[2].cls)
  => (/\ last.err = "AssertionError"
      /\ last.id = 0
      /\ heap[last.a] = last.was[1]
      /\ heap[last.b] = last.was[2]
      /\ Len(heap) = last.size)

\* a Params record combined with a SubParams record holding the same
\* attributes, under an operator name the table does not know
C9_Witness ==
  /\ last.op = "combine"
  /\ last.was[1].cls = "Params"
  /\ last.was[2].cls = "SubParams"
  /\ last.was[1].d = last.was[2].d
  /\ last.was[1].d # << >>
  /\ last.method = StrV(S("bogus"))
  /\ last.err = "AssertionError"
  /\ Len(heap) = 2

----------------------------------------------------------------------------
(* Building a ParamSet from a collection of records *)

COLLECTION == S("collection")

\* the collections given to ParamSet(collection=...): sequences and keyed
\* maps of live records, a bare record, and inputs holding a non-record
Collections ==
  {ListV(<< >>), IntV(1), StrV(A), ListV(<<IntV(1)>>),
   DictV(<< <<A, IntV(1)>> >>)}
  \cup {ObjV(i) : i \in Live}
  \cup {ListV(<<ObjV(i)>>) : i \in Live}
  \cup {TupV(<<ObjV(i), ObjV(j)>>) : i, j \in Live}
  \cup {ListV(<<ObjV(i), IntV(1)>>) : i \in Live}
  \cup {DictV(<< <<X, ObjV(i)>>, <<A, ObjV(j)>> >>) : i, j \in Live}

NextSet ==
  \/ \E c \in {"Point", "Label"}, p \in {<< >>, << <<X, IntV(1)>> >>} :
       Len(heap) < MaxSetObjs /\ Construct(c, p, << >>)
  \/ \E v \in Collections :
       Len(heap) < MaxSetObjs /\ Construct("ParamSet", << >>, << <<COLLECTION, v>> >>)

SpecSet == InitCommon /\ [][NextSet]_vars

\* the members the three accepted shapes name, in order
Members(v) ==
  CASE v.t \in {"list", "tuple"} -> v.l
    [] v.t = "dict" -> Values(v.m)
    [] v.t = "obj" -> <<v>>
    [] OTHER -> << >>

\* C10: ParamSet(collection=v) with v a sequence, a keyed map or a bare
\* record stores exactly the members v names, in order, as a tuple of
\* records; when one of the members is not a record the construction
\* raises AssertionError
C10_Shapes ==
  (/\ last.op = "construct"
   /\ last.cls = "ParamSet"
   /\ Has(last.kw, COLLECTION)
   /\ Get(last.kw, COLLECTION).t \in {"list", "tuple", "dict", "obj"})
  => LET v == Get(last.kw, COLLECTION)
         ok == \A i \in 1..Len(Members(v)) : IsChild(heap, Members(v)[i])
     IN IF ok
        THEN /\ last.err = "none"
             /\ getattr(heap[last.id], COLLECTION) = TupV(Members(v))
             /\ \A i \in 1..Len(getattr(heap[last.id], COLLECTION).l) :
                  IsChild(heap, getattr(heap[last.id], COLLECTION).l[i])
        ELSE /\ last.err = "AssertionError"
             /\ last.id = 0

\* the same statement without the bare-record shape
C10_SequenceOrMap ==
  (/\ last.op = "construct"
   /\ last.cls = "ParamSet"
   /\ Has(last.kw, COLLECTION)
   /\ Get(last.kw, COLLECTION).t \in {"list", "tuple", "dict"})
  => LET v == Get(last.kw, COLLECTION)
         ok == \A i \in 1..Len(Members(v)) : IsChild(heap, Members(v)[i])
     IN IF ok
        THEN /\ last.err = "none"
             /\ getattr(heap[last.id], COLLECTION) = TupV(Members(v))
        ELSE /\ last.err = "AssertionError"
             /\ last.id = 0

----------------------------------------------------------------------------
(* Failure atomicity, the reserved keys and the declared-default set *)

\* whether the call that `last` records ended in an exception
Failed(call) ==
  CASE call.op \in {"construct", "decode", "combine", "set", "update", "encode"} ->
         call.err # "none"
    [] call.op = "match" -> call.res.err # "none"
    [] OTHER -> FALSE

\* C11: a construct, decode, combine or match call that fails leaves every
\* input as it was before the call: the records on the heap, the JSON text
\* and the params map handed to construct
C11_NoPartialMutation ==
  [][(last'.op \in {"construct", "decode", "combine", "match"} /\ Failed(last'))
     => (/\ heap' = heap
         /\ text' = text
         /\ (last'.op = "construct" => params' = last'.arg))]_vars

\* C12: after a successful construct from a map holding a dict under _params,
\* with or without _cls, every payload entry is stored with the payload's
\* value, and the record stores no slot named cls or params under any number
\* of leading underscores
C12_ReservedKeys ==
  (last.op = "construct" /\ last.err = "none")
  => LET o == heap[last.id]
         m == last.arg
         slot(k) == IF StrIn(k, default_attrs(o.cls)) THEN k ELSE Hide(k)
     IN /\ \A k \in Keys(o.d) : k.b \notin {CLS.b, PARAMS.b}
        /\ (Has(m, PARAMS) /\ Get(m, PARAMS).t = "dict")
           => \A k \in Keys(Get(m, PARAMS).m) :
                /\ Has(o.d, slot(k))
                /\ Get(o.d, slot(k)) = Get(Get(m, PARAMS).m, k)

\* C13: at every moment of a record's life iterate() yields the declared
\* names of its class in declaration order, and no name has both a public
\* and a hidden slot
C13_DeclaredFixed ==
  \A i \in Live :
    /\ Iterate(heap[i]) = Ok(default_attrs(heap[i].cls).l)
    /\ \A k \in Keys(heap[i].d) : ~ Has(heap[i].d, Hide(k))

====
